---- MODULE Spec2Model ----
(***************************************************************************)
(* Bond calculation engine of bond-calculator-api.                         *)
(*                                                                         *)
(* src/src/bonds/bonds.service.ts holds two BondsService variants:         *)
(*   - the date-schedule variant (lines 6-141): calculateBond embeds the   *)
(*     dated schedule built by generateCashflowSchedule;                   *)
(*   - the present-value variant (lines 148-314): calculateBond returns    *)
(*     discounted cashflows, generateCashflowSchedule(dto) is public.      *)
(*                                                                         *)
(* JavaScript numbers are modelled as exact rationals [num, den] in lowest *)
(* terms with den > 0, so that = on two numbers is numeric equality.       *)
(* IEEE-754 rounding is not modelled.                                      *)
(***************************************************************************)
EXTENDS Integers, Sequences, FiniteSets, TLC

(* ------------------------------------------------------------------ *)
(* Numbers                                                            *)
(* ------------------------------------------------------------------ *)

Abs(x) == IF x < 0 THEN -x ELSE x

RECURSIVE GCD(_, _)
GCD(a, b) == IF b = 0 THEN a ELSE GCD(b, a % b)

\* The number n/d, in lowest terms, sign carried by the numerator.
Rat(n, d) ==
    LET g == GCD(Abs(n), Abs(d))
        s == IF d < 0 THEN -1 ELSE 1
    IN  [num |-> s * (n \div g), den |-> s * (d \div g)]

R(i) == [num |-> i, den |-> 1]

\* Common factors are cancelled before multiplying, to keep the integers small.
RAdd(a, b) ==
    LET g == GCD(a.den, b.den)
    IN  Rat(a.num * (b.den \div g) + b.num * (a.den \div g), (a.den \div g) * b.den)
RNeg(a) == [num |-> -a.num, den |-> a.den]
RSub(a, b) == RAdd(a, RNeg(b))
RMul(a, b) ==
    LET g1 == GCD(Abs(a.num), b.den)
        g2 == GCD(Abs(b.num), a.den)
    IN  Rat((a.num \div g1) * (b.num \div g2), (a.den \div g2) * (b.den \div g1))
\* b is not zero: the validators keep every divisor of the engine positive.
RDiv(a, b) ==
    RMul(a, IF b.num < 0 THEN [num |-> -b.den, den |-> -b.num]
                         ELSE [num |-> b.den, den |-> b.num])
RLt(a, b) ==
    LET g == GCD(a.den, b.den)
    IN  a.num * (b.den \div g) < b.num * (a.den \div g)
RGt(a, b) == RLt(b, a)

\* Math.ceil and Math.floor, to an integer.
Ceil(a) == -((-a.num) \div a.den)
Floor(a) == a.num \div a.den

(* ------------------------------------------------------------------ *)
(* Inputs: BondCalculationDto values satisfying the validators        *)
(* ------------------------------------------------------------------ *)

MinFaceValue == 1
MaxFaceValue == 2
MaxPriceHalves == 5
MaxYearsHalves == 6

FaceValues == {R(k) : k \in MinFaceValue..MaxFaceValue}
CouponRates == {Rat(1, 100), R(5), R(100)}
MarketPrices == {Rat(1, 100)} \cup {Rat(k, 2) : k \in 1..MaxPriceHalves}
YearsToMaturity == {Rat(1, 10)} \cup {Rat(k, 2) : k \in 1..MaxYearsHalves}
Frequencies == {1, 2, 4, 12}
\* An optional number is the empty set (undefined) or a singleton.
SuppliedYtm == {{}, {R(5)}}

\* new Date(): the local calendar date of the invocation, month 0-based.
StartDates == {[year |-> 2024, month |-> 0, day |-> 31],
               [year |-> 2025, month |-> 5, day |-> 15]}

Ops == {"calcA", "calcB", "schedB"}

Dto(op, fv, cr, mp, y, f, ytm) ==
    IF op = "calcA"
    THEN [faceValue |-> fv, couponRate |-> cr, marketPrice |-> mp,
          yearsToMaturity |-> y, frequency |-> f, yieldToMaturity |-> ytm]
    ELSE [faceValue |-> fv, couponRate |-> cr, marketPrice |-> mp,
          yearsToMaturity |-> y, couponFrequency |-> f, yieldToMaturity |-> ytm]

(* ------------------------------------------------------------------ *)
(* Derived quantities                                                 *)
(* ------------------------------------------------------------------ *)

PeriodicCouponRate(couponRate, frequency) ==
    RDiv(RDiv(couponRate, R(100)), R(frequency))

CouponPayment(faceValue, couponRate, frequency) ==
    RMul(faceValue, PeriodicCouponRate(couponRate, frequency))

\* Mutant: Math.round in place of Math.ceil.
TotalPeriodsRound(yearsToMaturity, frequency) ==
    Floor(RAdd(RMul(yearsToMaturity, R(frequency)), Rat(1, 2)))

\* Mutant: Math.floor in place of Math.ceil.
TotalPeriodsFloor(yearsToMaturity, frequency) ==
    Floor(RMul(yearsToMaturity, R(frequency)))

TotalPeriods(yearsToMaturity, frequency) ==
    Ceil(RMul(yearsToMaturity, R(frequency)))

\* Mutant: one payment taken for the annual coupon.
AnnualCouponOnePayment(couponPayment, frequency) == couponPayment

AnnualCoupon(couponPayment, frequency) == RMul(couponPayment, R(frequency))

CurrentYield(annualCoupon, marketPrice) ==
    RMul(RDiv(annualCoupon, marketPrice), R(100))

\* Mutant: the maturity rounded up to whole years.
TotalInterestWholeYears(annualCoupon, yearsToMaturity) ==
    RMul(annualCoupon, R(Ceil(yearsToMaturity)))

TotalInterest(annualCoupon, yearsToMaturity) == RMul(annualCoupon, yearsToMaturity)

\* Mutant: the two comparisons exchanged.
BondStatusSwapped(marketPrice, faceValue) ==
    IF RLt(marketPrice, faceValue) THEN "Premium"
    ELSE IF RGt(marketPrice, faceValue) THEN "Discount"
    ELSE "Par"

BondStatus(marketPrice, faceValue) ==
    IF RGt(marketPrice, faceValue) THEN "Premium"
    ELSE IF RLt(marketPrice, faceValue) THEN "Discount"
    ELSE "Par"

\* JavaScript truthiness of an optional number: undefined and 0 are falsy.
Truthy(opt) == opt # {} /\ (CHOOSE v \in opt : TRUE).num # 0
ValueOf(opt) == CHOOSE v \in opt : TRUE

\* Mutant: the capital gain taken with the opposite sign.
calculateYTMSignSwapped(price, faceValue, couponRate, years, frequency) ==
    LET annualCoupon == RDiv(RMul(faceValue, couponRate), R(100))
    IN  RMul(RDiv(RAdd(annualCoupon, RDiv(RSub(price, faceValue), years)),
                  RDiv(RAdd(faceValue, price), R(2))),
             R(100))

\* Mutant: the capital gain spread over periods instead of years.
calculateYTMPerPeriod(price, faceValue, couponRate, years, frequency) ==
    LET annualCoupon == RDiv(RMul(faceValue, couponRate), R(100))
    IN  RMul(RDiv(RAdd(annualCoupon,
                       RDiv(RSub(faceValue, price), RMul(years, R(frequency)))),
                  RDiv(RAdd(faceValue, price), R(2))),
             R(100))

\* calculateYTM of the date-schedule variant: the approximation, in percent.
calculateYTM(price, faceValue, couponRate, years, frequency) ==
    LET annualCoupon == RDiv(RMul(faceValue, couponRate), R(100))
    IN  RMul(RDiv(RAdd(annualCoupon, RDiv(RSub(faceValue, price), years)),
                  RDiv(RAdd(faceValue, price), R(2))),
             R(100))

\* Mutant: the capital gain taken with the opposite sign.
calculateYTM_PVSignSwapped(price, faceValue, couponRate, years, frequency) ==
    LET annualCoupon == RDiv(RMul(faceValue, couponRate), R(100))
        ytm == RMul(RDiv(RAdd(annualCoupon, RDiv(RSub(price, faceValue), years)),
                         RDiv(RAdd(faceValue, price), R(2))),
                    R(100))
    IN  RDiv(ytm, R(100))

\* Mutant: the sum of face value and price not halved.
calculateYTM_PVNoAverage(price, faceValue, couponRate, years, frequency) ==
    LET annualCoupon == RDiv(RMul(faceValue, couponRate), R(100))
        ytm == RMul(RDiv(RAdd(annualCoupon, RDiv(RSub(faceValue, price), years)),
                         RAdd(faceValue, price)),
                    R(100))
    IN  RDiv(ytm, R(100))

\* calculateYTM of the present-value variant: the same approximation,
\* returned as a fraction.
calculateYTM_PV(price, faceValue, couponRate, years, frequency) ==
    LET annualCoupon == RDiv(RMul(faceValue, couponRate), R(100))
        ytm == RMul(RDiv(RAdd(annualCoupon, RDiv(RSub(faceValue, price), years)),
                         RDiv(RAdd(faceValue, price), R(2))),
                    R(100))
    IN  RDiv(ytm, R(100))

\* Mutant: a supplied value is turned into a fraction and returned so.
SelectYtmAsFraction(providedYtm, price, faceValue, couponRate, years, frequency) ==
    IF Truthy(providedYtm)
    THEN [value |-> RDiv(ValueOf(providedYtm), R(100)), calls |-> 0]
    ELSE [value |-> calculateYTM(price, faceValue, couponRate, years, frequency),
          calls |-> 1]

\* yieldToMaturity as calculateBond of the date-schedule variant selects it,
\* with the number of calls of calculateYTM this takes.
SelectYtm(providedYtm, price, faceValue, couponRate, years, frequency) ==
    IF Truthy(providedYtm)
    THEN [value |-> ValueOf(providedYtm), calls |-> 0]
    ELSE [value |-> calculateYTM(price, faceValue, couponRate, years, frequency),
          calls |-> 1]

\* Mutant: a supplied percent value used as it is.
SelectYtm_PVUnscaled(providedYtm, price, faceValue, couponRate, years, frequency) ==
    IF Truthy(providedYtm)
    THEN [value |-> ValueOf(providedYtm), calls |-> 0]
    ELSE [value |-> calculateYTM_PV(price, faceValue, couponRate, years, frequency),
          calls |-> 1]

\* yieldToMaturity (a fraction) as calculateBond of the present-value
\* variant selects it.
SelectYtm_PV(providedYtm, price, faceValue, couponRate, years, frequency) ==
    IF Truthy(providedYtm)
    THEN [value |-> RDiv(ValueOf(providedYtm), R(100)), calls |-> 0]
    ELSE [value |-> calculateYTM_PV(price, faceValue, couponRate, years, frequency),
          calls |-> 1]

\* The yieldToMaturity field of the present-value variant's result.
ReturnedYtm_PV(yieldToMaturity) == RMul(yieldToMaturity, R(100))

(* ------------------------------------------------------------------ *)
(* Dates: Date.prototype.setMonth with its overflow rules             *)
(* ------------------------------------------------------------------ *)

IsLeap(y) == (y % 4 = 0 /\ y % 100 # 0) \/ y % 400 = 0

DaysInMonth(y, m) ==
    IF m = 1 THEN (IF IsLeap(y) THEN 29 ELSE 28)
    ELSE IF m \in {3, 5, 8, 10} THEN 30
    ELSE 31

\* date.setMonth(m) for m >= 0: months past 11 carry into the year, a day
\* past the end of the month carries into the next month.
SetMonth(date, m) ==
    LET y1 == date.year + (m \div 12)
        m1 == m % 12
        dim == DaysInMonth(y1, m1)
    IN  IF date.day <= dim
        THEN [year |-> y1, month |-> m1, day |-> date.day]
        ELSE [year |-> IF m1 = 11 THEN y1 + 1 ELSE y1,
              month |-> (m1 + 1) % 12,
              day |-> date.day - dim]

MonthsPerPeriod(frequency) == Rat(12, frequency)

MonthOffset(frequency, p) == Floor(RMul(MonthsPerPeriod(frequency), R(p)))

PaymentDate(start, frequency, p) ==
    SetMonth(start, start.month + MonthOffset(frequency, p))

\* Mutant: the principal is never marked repaid.
RemainingPrincipalNeverZero(p, total, faceValue) == faceValue

RemainingPrincipal(p, total, faceValue) == IF p = total THEN R(0) ELSE faceValue

\* Mutant: the row holds the payment of its period, not the running sum.
ScheduleRowPeriodInterest(p, total, faceValue, payment, cum, start, frequency) ==
    [period |-> p,
     paymentDate |-> PaymentDate(start, frequency, p),
     couponPayment |-> payment,
     cumulativeInterest |-> payment,
     remainingPrincipal |-> RemainingPrincipal(p, total, faceValue)]

\* One row of the dated schedule, cum being the interest accumulated so far.
ScheduleRow(p, total, faceValue, payment, cum, start, frequency) ==
    [period |-> p,
     paymentDate |-> PaymentDate(start, frequency, p),
     couponPayment |-> payment,
     cumulativeInterest |-> cum,
     remainingPrincipal |-> RemainingPrincipal(p, total, faceValue)]

(* ------------------------------------------------------------------ *)
(* Present-value cashflows                                            *)
(* ------------------------------------------------------------------ *)

\* amount / Math.pow(1 + periodicYTM, p), kept as its three operands: the
\* number it denotes is amount / base^exponent.
PresentValue(amount, periodicYTM, p) ==
    [amount |-> amount, base |-> RAdd(R(1), periodicYTM), exponent |-> p]

\* Mutant: the annual yield used as the periodic one.
PeriodicYTMAnnual(yieldToMaturity, couponFrequency) == yieldToMaturity

PeriodicYTM(yieldToMaturity, couponFrequency) ==
    RDiv(yieldToMaturity, R(couponFrequency))

\* Mutant: the final cashflow repays the principal without its coupon.
CashflowRowPrincipalOnly(p, total, faceValue, payment, periodicYTM) ==
    IF p = total
    THEN [period |-> p, type |-> "principal", amount |-> faceValue,
          presentValue |-> PresentValue(faceValue, periodicYTM, p)]
    ELSE [period |-> p, type |-> "coupon", amount |-> payment,
          presentValue |-> PresentValue(payment, periodicYTM, p)]

CashflowRow(p, total, faceValue, payment, periodicYTM) ==
    IF p = total
    THEN LET amount == RAdd(payment, faceValue)
         IN  [period |-> p, type |-> "principal", amount |-> amount,
              presentValue |-> PresentValue(amount, periodicYTM, p)]
    ELSE [period |-> p, type |-> "coupon", amount |-> payment,
          presentValue |-> PresentValue(payment, periodicYTM, p)]

(* ------------------------------------------------------------------ *)
(* Request bodies and the validators of BondCalculationDto            *)
(* ------------------------------------------------------------------ *)

\* A JSON value of a body: a number, a string holding a numeral, any
\* other string, null, or no such key; NaN is what Number(text) gives.
Num(r) == [type |-> "number", val |-> r]
Numeral(r) == [type |-> "string", val |-> r]
Text == [type |-> "text", val |-> R(0)]
NaN == [type |-> "nan", val |-> R(0)]
Null == [type |-> "null", val |-> R(0)]
Absent == [type |-> "absent", val |-> R(0)]

\* 'key' in body
HasKey(body, key) == body[key].type # "absent"

\* The two BondCalculationDto classes of the repository: one declares
\* couponFrequency, the other declares frequency.
DtoClasses == {"couponFrequency", "frequency"}

BodyFields ==
    {"faceValue", "couponRate", "marketPrice", "yearsToMaturity",
     "couponFrequency", "frequency", "yieldToMaturity", "extraField"}

Body(fv, cr, mp, y, cf, f, ytm) ==
    [faceValue |-> fv, couponRate |-> cr, marketPrice |-> mp,
     yearsToMaturity |-> y, couponFrequency |-> cf, frequency |-> f,
     yieldToMaturity |-> ytm, extraField |-> Absent]

\* The decorated properties of a DTO class.
DtoProperties(class) ==
    {"faceValue", "couponRate", "marketPrice", "yearsToMaturity", class,
     "yieldToMaturity"}

\* The validation decorators of a property, by constraint name.
Decorators(property) ==
    CASE property \in {"faceValue", "marketPrice"} ->
            {"isNumber", "isPositive", "min"}
      [] property \in {"couponRate", "yearsToMaturity", "yieldToMaturity"} ->
            {"isNumber", "isPositive", "min", "max"}
      [] property \in {"couponFrequency", "frequency"} -> {"isNumber", "isIn"}

MinOf(property) ==
    CASE property = "faceValue" -> R(MinFaceValue)
      [] property = "yearsToMaturity" -> Rat(1, 10)
      [] OTHER -> Rat(1, 100)

MaxOf(property) == R(100)

IsOptionalProperty(property) == property = "yieldToMaturity"

\* Number(value) of class-transformer for a property of type Number;
\* null and undefined are passed through.
ToNumber(v) ==
    CASE v.type = "string" -> Num(v.val)
      [] v.type = "text" -> NaN
      [] OTHER -> v

\* Whether the properties of the class carry @Type(() => Number).
HasTypeDecorator(class) == class = "frequency"

\* plainToInstance(BondCalculationDto, body): every key is copied; the
\* decorated properties become Numbers under @Type or implicit conversion.
PlainToInstance(body, class, enableImplicitConversion) ==
    [k \in BodyFields |->
        IF (enableImplicitConversion \/ HasTypeDecorator(class))
              /\ k \in DtoProperties(class)
        THEN ToNumber(body[k])
        ELSE body[k]]

\* Mutant: @Min rejects its own bound.
SatisfiesStrictMin(constraint, property, v) ==
    CASE constraint = "isNumber" -> v.type = "number"
      [] constraint = "isPositive" -> v.type = "number" /\ v.val.num > 0
      [] constraint = "min" ->
            v.type = "number" /\ RGt(v.val, MinOf(property))
      [] constraint = "max" ->
            v.type = "number" /\ ~RLt(MaxOf(property), v.val)
      [] constraint = "isIn" -> v \in {Num(R(f)) : f \in Frequencies}

\* Whether a value satisfies a constraint of class-validator.
Satisfies(constraint, property, v) ==
    CASE constraint = "isNumber" -> v.type = "number"
      [] constraint = "isPositive" -> v.type = "number" /\ v.val.num > 0
      [] constraint = "min" ->
            v.type = "number" /\ ~RLt(v.val, MinOf(property))
      [] constraint = "max" ->
            v.type = "number" /\ ~RLt(MaxOf(property), v.val)
      [] constraint = "isIn" -> v \in {Num(R(f)) : f \in Frequencies}

\* The constraints a property's value fails; @IsOptional skips them all
\* for undefined and null.
FailedConstraints(property, v) ==
    IF IsOptionalProperty(property) /\ v.type \in {"absent", "null"}
    THEN {}
    ELSE {c \in Decorators(property) : ~Satisfies(c, property, v)}

\* Mutant: validation stops at the first property in error.
ValidateDtoFirstOnly(instance, class) ==
    LET failing == {q \in DtoProperties(class) :
                        FailedConstraints(q, instance[q]) # {}}
    IN  IF failing = {} THEN {}
        ELSE LET prop == CHOOSE q \in failing : TRUE
             IN  {[property |-> prop,
                   constraints |-> FailedConstraints(prop, instance[prop])]}

\* validate(instance): one ValidationError per property with a failed
\* constraint, holding all of them.
ValidateDto(instance, class) ==
    {[property |-> prop,
      constraints |-> FailedConstraints(prop, instance[prop])] :
        prop \in {q \in DtoProperties(class) :
                    FailedConstraints(q, instance[q]) # {}}}

\* validate(instance, {whitelist, forbidNonWhitelisted}): as above, and
\* every key that is no decorated property is an error of its own.
ValidateWhitelisted(instance, class) ==
    ValidateDto(instance, class) \cup
    {[property |-> key, constraints |-> {"whitelistValidation"}] :
        key \in {k \in BodyFields \ DtoProperties(class) :
                    HasKey(instance, k)}}

\* exceptionFactory of the global ValidationPipe: the errors list of the
\* object it returns.
FormattedErrors(errors) ==
    {[field |-> e.property, constraints |-> e.constraints] : e \in errors}

\* Payloads given to the validators alone.
Payloads ==
    {Body(fv, cr, mp, y, cf, Absent, ytm) :
        fv \in {Num(R(1)), Num(Rat(1, 2)), Num(R(0)), Numeral(R(1)), Absent},
        cr \in {Num(Rat(1, 100)), Num(R(100)), Num(Rat(1, 200)), Num(R(101)),
                Absent},
        mp \in {Num(Rat(1, 100)), Num(Rat(1, 200)), Null, Absent},
        y \in {Num(Rat(1, 10)), Num(R(100)), Num(Rat(1, 20)), Num(R(101)),
               Absent},
        cf \in {Num(R(1)), Num(R(2)), Num(R(4)), Num(R(12)), Num(R(3)), Text,
                Absent},
        ytm \in {Absent, Null, Num(Rat(1, 100)), Num(R(100)), Num(Rat(1, 200)),
                 Num(R(101)), Text}}

(* ------------------------------------------------------------------ *)
(* Middleware, exceptions and the exception filter                    *)
(* ------------------------------------------------------------------ *)

\* Mutant: frequency replaces a couponFrequency that is there.
FieldAliasOverwrite(body) ==
    IF HasKey(body, "frequency")
    THEN [body EXCEPT !["couponFrequency"] = body["frequency"]]
    ELSE body

\* FieldAliasMiddleware.use on a body that is an object: the body after
\* the middleware.
FieldAlias(body) ==
    IF HasKey(body, "frequency") /\ ~HasKey(body, "couponFrequency")
    THEN [body EXCEPT !["couponFrequency"] = body["frequency"]]
    ELSE body

\* A message: a string, or an array of strings.
Msg(text) == [isArray |-> FALSE, text |-> text, items |-> {}]
MsgArray(items) == [isArray |-> TRUE, text |-> "", items |-> items]
MsgTruthy(m) == m.isArray \/ m.text # ""

ValidationFailed == Msg("Validation failed")
InternalServerError == Msg("Internal server error")

\* A thrown value: its class, getStatus(), its content (getResponse() of
\* an HttpException, the value itself otherwise) and its Error message.
\* errors is {} when the content has no such key.
Content(isString, message, errors) ==
    [isString |-> isString, message |-> message, errors |-> errors]

Thrown(class, status, content, message) ==
    [class |-> class, status |-> status, content |-> content,
     message |-> message]

BondCalculationException(class, message, status) ==
    Thrown(class, status, Content(FALSE, Msg(message), {}), message)

UNPROCESSABLE_ENTITY == 422
BAD_REQUEST == 400
NOT_FOUND == 404
INTERNAL_SERVER_ERROR == 500
OK == 200

BusinessExceptions ==
    {BondCalculationException("BondCalculationException",
                              "Calculation failed", UNPROCESSABLE_ENTITY),
     BondCalculationException("InvalidBondDataException",
                              "Invalid bond data", BAD_REQUEST),
     BondCalculationException("BondNotFoundException",
                              "Bond with identifier \"X\" not found", NOT_FOUND)}

OtherHttpExceptions ==
    {Thrown("HttpException", NOT_FOUND, Content(TRUE, Msg("Not Found"), {}),
            "Not Found"),
     Thrown("BadRequestException", BAD_REQUEST,
            Content(FALSE, MsgArray({"faceValue must be a positive number"}), {}),
            "Bad Request Exception")}

Unexpected ==
    {Thrown("Error", 0, Content(TRUE, Msg(""), {}),
            "connect ECONNREFUSED 10.0.0.5:5432"),
     Thrown("string", 0, Content(TRUE, Msg("boom"), {}), "")}

NoException == Thrown("none", 0, Content(TRUE, Msg(""), {}), "")

\* What the service double of a controller test throws, if anything.
Faults == {NoException} \cup BusinessExceptions \cup OtherHttpExceptions
              \cup Unexpected

\* The value the ValidationPipe throws: what exceptionFactory returned,
\* a plain object.
ExceptionFactory(errors) ==
    Thrown("object", 0,
           Content(FALSE, ValidationFailed, {FormattedErrors(errors)}), "")

\* exception instanceof HttpException, exception instanceof Error
IsHttpException(e) ==
    e.class \in {"HttpException", "BadRequestException",
                 "BondCalculationException", "InvalidBondDataException",
                 "BondNotFoundException"}
IsError(e) == IsHttpException(e) \/ e.class = "Error"

\* new Date().toISOString(): months are written from 1.
ToISOString(date) ==
    [year |-> date.year, month |-> date.month + 1, day |-> date.day]

\* Mutant: the status an exception carries is not read.
ExceptionStatusInternal(exception) == INTERNAL_SERVER_ERROR

\* HttpExceptionFilter.catch: the status and the JSON payload it sends.
ExceptionStatus(exception) ==
    IF IsHttpException(exception) THEN exception.status
    ELSE INTERNAL_SERVER_ERROR

FilterCustomFormat(exception) ==
    /\ IsHttpException(exception)
    /\ ~exception.content.isString
    /\ exception.content.message = ValidationFailed
    /\ exception.content.errors # {}

FilterStatus(exception) ==
    IF FilterCustomFormat(exception) THEN BAD_REQUEST
    ELSE ExceptionStatus(exception)

FilterMessageBeforeArray(exception) ==
    IF IsHttpException(exception)
    THEN IF exception.content.isString THEN exception.content.message
         ELSE IF MsgTruthy(exception.content.message)
              THEN exception.content.message
              ELSE InternalServerError
    ELSE IF IsError(exception) THEN Msg(exception.message)
         ELSE InternalServerError

FilterArrayFormat(exception) ==
    FilterStatus(exception) = BAD_REQUEST
        /\ FilterMessageBeforeArray(exception).isArray

FilterMessage(exception) ==
    IF FilterArrayFormat(exception) THEN ValidationFailed
    ELSE FilterMessageBeforeArray(exception)

FilterErrors(exception) ==
    IF FilterArrayFormat(exception)
    THEN {FilterMessageBeforeArray(exception).items}
    ELSE IF IsHttpException(exception) /\ ~exception.content.isString
         THEN exception.content.errors
         ELSE {}

\* Mutant: statusCode is read from the exception, not from the status sent.
ErrorResponseStatusOfException(exception, req, now) ==
    [kind |-> "error",
     status |-> FilterStatus(exception),
     payload |-> [statusCode |-> exception.status,
                  message |-> FilterMessage(exception),
                  errors |-> FilterErrors(exception),
                  timestamp |-> ToISOString(now),
                  path |-> req.url]]

ErrorResponse(exception, req, now) ==
    [kind |-> "error",
     status |-> FilterStatus(exception),
     payload |-> [statusCode |-> FilterStatus(exception),
                  message |-> FilterMessage(exception),
                  errors |-> FilterErrors(exception),
                  timestamp |-> ToISOString(now),
                  path |-> req.url]]

(* ------------------------------------------------------------------ *)
(* State                                                              *)
(* ------------------------------------------------------------------ *)

VARIABLES
    op,                 \* the service method invoked
    dto,                \* its argument
    startDate,          \* new Date() at the invocation
    pc,                 \* "start", "schedule", "cashflows", "done"
    couponPayment,      \* locals of the invocation
    totalPeriods,
    metrics,
    ytmCalls,           \* number of calls of calculateYTM
    period,             \* loop variable
    cumulativeInterest,
    cashflows,
    result,             \* the returned value
    run,                \* 1 for the first invocation, 2 for a repeated one
    first,              \* the first invocation: its start date and result
    other,              \* the frame of a second invocation in progress
    dtoClass,           \* the BondCalculationDto class of the build
    registered,         \* whether FieldAliasMiddleware is applied to the route
    request,            \* the HTTP request: url, the body sent, req.body
    instance,           \* the body after plainToInstance
    stage,              \* position of the request in the pipeline
    validationErrors,   \* what validate() returned
    fault,              \* what the service double throws, if anything
    thrown,             \* the value in flight to the exception filter
    serviceCalls,       \* number of calls of bondsService.calculateBond
    nextCalls,          \* number of calls of next() by the middleware
    responses           \* the responses sent for the request

\* The state of the HTTP layer and of a repeated invocation.
http == <<dtoClass, registered, request, instance, stage, validationErrors,
          fault, thrown, serviceCalls, nextCalls, responses>>

twice == <<run, first, other>>

vars == <<op, dto, startDate, pc, couponPayment, totalPeriods, metrics,
          ytmCalls, period, cumulativeInterest, cashflows, result, twice, http>>

input == <<op, dto, startDate, twice, http>>

NoMetrics == [set |-> FALSE]
NoResult == [returned |-> FALSE]

\* The coupon frequency the invoked method reads from its argument.
Frequency == IF op = "calcA" THEN dto.frequency ELSE dto.couponFrequency

NoFirst == [set |-> FALSE]
NoFrame == [set |-> FALSE]
NoBody == Body(Absent, Absent, Absent, Absent, Absent, Absent, Absent)
NoRequest == [url |-> "", type |-> "undefined", sent |-> NoBody, body |-> NoBody]

\* The service method is invoked directly: there is no HTTP request.
DirectCall ==
    /\ dtoClass = IF op = "calcA" THEN "frequency" ELSE "couponFrequency"
    /\ registered = FALSE
    /\ request = NoRequest
    /\ instance = NoBody
    /\ stage = "direct"
    /\ validationErrors = {}
    /\ fault = NoException
    /\ thrown = NoException
    /\ serviceCalls = 0
    /\ nextCalls = 0
    /\ responses = <<>>

\* The locals of an invocation before its first statement.
FreshLocals ==
    /\ couponPayment = R(0)
    /\ totalPeriods = 0
    /\ metrics = NoMetrics
    /\ ytmCalls = 0
    /\ period = 0
    /\ cumulativeInterest = R(0)
    /\ cashflows = <<>>
    /\ result = NoResult

Init ==
    /\ op \in Ops
    /\ \E fv \in FaceValues, cr \in CouponRates, mp \in MarketPrices,
          y \in YearsToMaturity, f \in Frequencies, ytm \in SuppliedYtm :
            dto = Dto(op, fv, cr, mp, y, f, ytm)
    /\ startDate \in StartDates
    /\ pc = "start"
    /\ FreshLocals
    /\ run = 1
    /\ first = NoFirst
    /\ other = NoFrame
    /\ DirectCall

(* ------------------------------------------------------------------ *)
(* Date-schedule variant                                              *)
(* ------------------------------------------------------------------ *)

\* calculateBond up to and including the entry of generateCashflowSchedule.
CalculateBond ==
    /\ pc = "start" /\ op = "calcA"
    /\ LET payment == CouponPayment(dto.faceValue, dto.couponRate, dto.frequency)
           annualCoupon == AnnualCoupon(payment, dto.frequency)
           selected == SelectYtm(dto.yieldToMaturity, dto.marketPrice, dto.faceValue,
                                 dto.couponRate, dto.yearsToMaturity, dto.frequency)
       IN  /\ couponPayment' = payment
           /\ totalPeriods' = TotalPeriods(dto.yearsToMaturity, dto.frequency)
           /\ metrics' =
                [set |-> TRUE,
                 currentYield |-> CurrentYield(annualCoupon, dto.marketPrice),
                 yieldToMaturity |-> selected.value,
                 totalInterest |-> TotalInterest(annualCoupon, dto.yearsToMaturity),
                 status |-> BondStatus(dto.marketPrice, dto.faceValue)]
           /\ ytmCalls' = ytmCalls + selected.calls
    /\ cashflows' = <<>>
    /\ cumulativeInterest' = R(0)
    /\ period' = 1
    /\ pc' = "schedule"
    /\ UNCHANGED <<input, result>>

\* One iteration of the loop of generateCashflowSchedule.
SchedulePeriod ==
    /\ pc = "schedule" /\ op = "calcA"
    /\ period <= totalPeriods
    /\ cumulativeInterest' = RAdd(cumulativeInterest, couponPayment)
    /\ cashflows' = Append(cashflows,
            ScheduleRow(period, totalPeriods, dto.faceValue, couponPayment,
                        cumulativeInterest', startDate, dto.frequency))
    /\ period' = period + 1
    /\ UNCHANGED <<input, pc, couponPayment, totalPeriods, metrics, ytmCalls, result>>

\* The loop ends, generateCashflowSchedule returns, calculateBond returns.
CalculateBondReturn ==
    /\ pc = "schedule" /\ op = "calcA"
    /\ period > totalPeriods
    /\ result' = [returned |-> TRUE,
                  currentYield |-> metrics.currentYield,
                  yieldToMaturity |-> metrics.yieldToMaturity,
                  totalInterest |-> metrics.totalInterest,
                  status |-> metrics.status,
                  cashflows |-> cashflows]
    /\ pc' = "done"
    /\ UNCHANGED <<input, couponPayment, totalPeriods, metrics, ytmCalls, period,
                   cumulativeInterest, cashflows>>

(* ------------------------------------------------------------------ *)
(* Present-value variant                                              *)
(* ------------------------------------------------------------------ *)

\* calculateBond up to and including the entry of generateCashflows.
CalculateBondPV ==
    /\ pc = "start" /\ op = "calcB"
    /\ LET payment == CouponPayment(dto.faceValue, dto.couponRate, dto.couponFrequency)
           annualCoupon == AnnualCoupon(payment, dto.couponFrequency)
           selected == SelectYtm_PV(dto.yieldToMaturity, dto.marketPrice,
                                    dto.faceValue, dto.couponRate,
                                    dto.yearsToMaturity, dto.couponFrequency)
       IN  /\ couponPayment' = payment
           /\ totalPeriods' = TotalPeriods(dto.yearsToMaturity, dto.couponFrequency)
           /\ metrics' =
                [set |-> TRUE,
                 currentYield |-> CurrentYield(annualCoupon, dto.marketPrice),
                 yieldToMaturity |-> selected.value,
                 totalInterest |-> TotalInterest(annualCoupon, dto.yearsToMaturity),
                 status |-> BondStatus(dto.marketPrice, dto.faceValue)]
           /\ ytmCalls' = ytmCalls + selected.calls
    /\ cashflows' = <<>>
    /\ period' = 1
    /\ pc' = "cashflows"
    /\ UNCHANGED <<input, cumulativeInterest, result>>

\* One iteration of the loop of generateCashflows.
CashflowPeriod ==
    /\ pc = "cashflows" /\ op = "calcB"
    /\ period <= totalPeriods
    /\ cashflows' = Append(cashflows,
            CashflowRow(period, totalPeriods, dto.faceValue, couponPayment,
                        PeriodicYTM(metrics.yieldToMaturity, dto.couponFrequency)))
    /\ period' = period + 1
    /\ UNCHANGED <<input, pc, couponPayment, totalPeriods, metrics, ytmCalls,
                   cumulativeInterest, result>>

\* The loop ends, generateCashflows returns, calculateBond returns.
CalculateBondPVReturn ==
    /\ pc = "cashflows" /\ op = "calcB"
    /\ period > totalPeriods
    /\ result' = [returned |-> TRUE,
                  currentYield |-> metrics.currentYield,
                  yieldToMaturity |-> ReturnedYtm_PV(metrics.yieldToMaturity),
                  totalInterest |-> metrics.totalInterest,
                  status |-> metrics.status,
                  cashflows |-> cashflows]
    /\ pc' = "done"
    /\ UNCHANGED <<input, couponPayment, totalPeriods, metrics, ytmCalls, period,
                   cumulativeInterest, cashflows>>

\* generateCashflowSchedule(dto) up to the first test of its loop.
GenerateCashflowSchedule ==
    /\ pc = "start" /\ op = "schedB"
    /\ couponPayment' = CouponPayment(dto.faceValue, dto.couponRate, dto.couponFrequency)
    /\ totalPeriods' = TotalPeriods(dto.yearsToMaturity, dto.couponFrequency)
    /\ cashflows' = <<>>
    /\ cumulativeInterest' = R(0)
    /\ period' = 1
    /\ pc' = "schedule"
    /\ UNCHANGED <<input, metrics, ytmCalls, result>>

\* One iteration of its loop.
GenerateCashflowSchedulePeriod ==
    /\ pc = "schedule" /\ op = "schedB"
    /\ period <= totalPeriods
    /\ cumulativeInterest' = RAdd(cumulativeInterest, couponPayment)
    /\ cashflows' = Append(cashflows,
            ScheduleRow(period, totalPeriods, dto.faceValue, couponPayment,
                        cumulativeInterest', startDate, dto.couponFrequency))
    /\ period' = period + 1
    /\ UNCHANGED <<input, pc, couponPayment, totalPeriods, metrics, ytmCalls, result>>

\* The loop ends and the rows are returned.
GenerateCashflowScheduleReturn ==
    /\ pc = "schedule" /\ op = "schedB"
    /\ period > totalPeriods
    /\ result' = [returned |-> TRUE, cashflows |-> cashflows]
    /\ pc' = "done"
    /\ UNCHANGED <<input, couponPayment, totalPeriods, metrics, ytmCalls, period,
                   cumulativeInterest, cashflows>>

(* ------------------------------------------------------------------ *)
(* The validators on their own                                        *)
(* ------------------------------------------------------------------ *)

NoDto == [set |-> FALSE]
NoDate == [year |-> 1970, month |-> 0, day |-> 1]

\* No service method has been invoked.
NotInvoked ==
    /\ dto = NoDto
    /\ startDate = NoDate
    /\ pc = "idle"
    /\ FreshLocals
    /\ run = 1
    /\ first = NoFirst
    /\ other = NoFrame

\* A payload is handed to validate() through plainToInstance, as the DTO
\* tests do, for the class that declares couponFrequency.
InitValidation ==
    /\ op = "calcB"
    /\ NotInvoked
    /\ dtoClass = "couponFrequency"
    /\ registered = FALSE
    /\ \E body \in Payloads :
            request = [url |-> "", type |-> "object", sent |-> body,
                       body |-> body]
    /\ instance = NoBody
    /\ stage = "payload"
    /\ validationErrors = {}
    /\ fault = NoException
    /\ thrown = NoException
    /\ serviceCalls = 0
    /\ nextCalls = 0
    /\ responses = <<>>

ToInstance ==
    /\ stage = "payload"
    /\ instance' = PlainToInstance(request.body, dtoClass, FALSE)
    /\ stage' = "instance"
    /\ UNCHANGED <<op, dto, startDate, pc, couponPayment, totalPeriods,
                   metrics, ytmCalls, period, cumulativeInterest, cashflows,
                   result, twice, dtoClass, registered, request,
                   validationErrors, fault, thrown, serviceCalls, nextCalls, responses>>

Validate ==
    /\ stage = "instance"
    /\ validationErrors' = ValidateDto(instance, dtoClass)
    /\ stage' = "validated"
    /\ UNCHANGED <<op, dto, startDate, pc, couponPayment, totalPeriods,
                   metrics, ytmCalls, period, cumulativeInterest, cashflows,
                   result, twice, dtoClass, registered, request, instance,
                   fault, thrown, serviceCalls, nextCalls, responses>>

NextValidation ==
    \/ ToInstance
    \/ Validate

SpecValidation == InitValidation /\ [][NextValidation]_vars

(* ------------------------------------------------------------------ *)
(* POST /bond/calculate: middleware, pipe, controller, filter         *)
(* ------------------------------------------------------------------ *)

Urls == {"/bond/calculate", "/bond/calculate?source=web"}

\* Request bodies sent to the route.
PipelineBodies ==
    {[Body(fv, Num(R(5)), mp, y, cf, f, ytm) EXCEPT !["extraField"] = extra] :
        fv \in {Num(R(1)), Numeral(R(2)), Absent},
        mp \in {Num(R(1)), Num(Rat(1, 2))},
        y \in {Num(R(1)), Num(R(101))},
        cf \in {Absent, Num(R(2)), Num(R(3))},
        f \in {Absent, Num(R(1)), Num(R(12))},
        ytm \in {Absent, Null, Num(R(5))},
        extra \in {Absent, Text}}

\* req.body is an object, is missing, or is a string.  The pipe validates
\* a body that is no object as an object without keys.
BodyTypes == {"object", "undefined", "string"}

\* The service method the controller of a build calls: each DTO class
\* goes with the service that reads its frequency property.
ServiceOf(class) == IF class = "frequency" THEN "calcA" ELSE "calcB"

\* Mutant: the controller hands on the required properties only.
DtoOfInstanceRequiredOnly(inst, class) ==
    Dto(ServiceOf(class), inst["faceValue"].val, inst["couponRate"].val,
        inst["marketPrice"].val, inst["yearsToMaturity"].val,
        inst[class].val.num, {})

\* The validated instance as the argument of the service.
DtoOfInstance(inst, class) ==
    Dto(ServiceOf(class), inst["faceValue"].val, inst["couponRate"].val,
        inst["marketPrice"].val, inst["yearsToMaturity"].val,
        inst[class].val.num,
        IF inst["yieldToMaturity"].type = "number"
        THEN {inst["yieldToMaturity"].val} ELSE {})

\* A request arrives; the build has one of the two DTO classes, the
\* middleware is or is not applied to the route, and the service is the
\* real one or a double that throws.
InitPipeline ==
    /\ dtoClass \in DtoClasses
    /\ op = ServiceOf(dtoClass)
    /\ NotInvoked
    /\ registered \in BOOLEAN
    /\ \E url \in Urls, type \in BodyTypes :
       \E body \in IF type = "object" THEN PipelineBodies ELSE {NoBody} :
            request = [url |-> url, type |-> type, sent |-> body,
                       body |-> body]
    /\ instance = NoBody
    /\ stage = "received"
    /\ validationErrors = {}
    /\ fault \in Faults
    /\ thrown = NoException
    /\ serviceCalls = 0
    /\ nextCalls = 0
    /\ responses = <<>>

\* FieldAliasMiddleware.use
Use ==
    /\ stage = "received" /\ registered
    /\ request' = IF request.type = "object"
                  THEN [request EXCEPT !.body = FieldAlias(request.body)]
                  ELSE request
    /\ nextCalls' = nextCalls + 1
    /\ stage' = "routed"
    /\ UNCHANGED <<op, dto, startDate, pc, couponPayment, totalPeriods,
                   metrics, ytmCalls, period, cumulativeInterest, cashflows,
                   result, twice, dtoClass, registered, instance,
                   validationErrors, fault, thrown, serviceCalls, responses>>

\* ValidationPipe.transform on the body: transform, validate, and throw
\* what exceptionFactory returns if there is any error.
ValidationPipeTransform ==
    /\ stage = "routed" \/ (stage = "received" /\ ~registered)
    /\ instance' = PlainToInstance(request.body, dtoClass, TRUE)
    /\ validationErrors' = ValidateWhitelisted(instance', dtoClass)
    /\ IF validationErrors' # {}
       THEN thrown' = ExceptionFactory(validationErrors') /\ stage' = "thrown"
       ELSE thrown' = thrown /\ stage' = "handler"
    /\ UNCHANGED <<op, dto, startDate, pc, couponPayment, totalPeriods,
                   metrics, ytmCalls, period, cumulativeInterest, cashflows,
                   result, twice, dtoClass, registered, request, fault,
                   serviceCalls, nextCalls, responses>>

\* BondsController.calculateBond up to the call of the service; what the
\* service throws is logged and thrown again.
ControllerCalculateBond ==
    /\ stage = "handler"
    /\ serviceCalls' = serviceCalls + 1
    /\ IF fault # NoException
       THEN /\ thrown' = fault
            /\ stage' = "thrown"
            /\ UNCHANGED <<dto, startDate, pc>>
       ELSE /\ dto' = DtoOfInstance(instance, dtoClass)
            /\ startDate' \in StartDates
            /\ pc' = "start"
            /\ stage' = "service"
            /\ thrown' = thrown
    /\ UNCHANGED <<op, couponPayment, totalPeriods, metrics, ytmCalls, period,
                   cumulativeInterest, cashflows, result, twice, dtoClass,
                   registered, request, instance, validationErrors, fault,
                   nextCalls, responses>>

\* BondsController.calculateBond returns the result: 200 with the result.
ControllerReturn ==
    /\ stage = "service" /\ pc = "done"
    /\ responses' = Append(responses,
                           [kind |-> "ok", status |-> OK, payload |-> result])
    /\ stage' = "responded"
    /\ UNCHANGED <<op, dto, startDate, pc, couponPayment, totalPeriods,
                   metrics, ytmCalls, period, cumulativeInterest, cashflows,
                   result, twice, dtoClass, registered, request, instance,
                   validationErrors, fault, thrown, serviceCalls, nextCalls>>

\* HttpExceptionFilter.catch
FilterCatch ==
    /\ stage = "thrown"
    /\ \E now \in StartDates :
            responses' = Append(responses, ErrorResponse(thrown, request, now))
    /\ stage' = "responded"
    /\ UNCHANGED <<op, dto, startDate, pc, couponPayment, totalPeriods,
                   metrics, ytmCalls, period, cumulativeInterest, cashflows,
                   result, twice, dtoClass, registered, request, instance,
                   validationErrors, fault, thrown, serviceCalls, nextCalls>>

NextPipeline ==
    \/ Use
    \/ ValidationPipeTransform
    \/ ControllerCalculateBond
    \/ CalculateBond
    \/ SchedulePeriod
    \/ CalculateBondReturn
    \/ CalculateBondPV
    \/ CashflowPeriod
    \/ CalculateBondPVReturn
    \/ ControllerReturn
    \/ FilterCatch

SpecPipeline == InitPipeline /\ [][NextPipeline]_vars

Next ==
    \/ CalculateBond
    \/ SchedulePeriod
    \/ CalculateBondReturn
    \/ CalculateBondPV
    \/ CashflowPeriod
    \/ CalculateBondPVReturn
    \/ GenerateCashflowSchedule
    \/ GenerateCashflowSchedulePeriod
    \/ GenerateCashflowScheduleReturn

Spec == Init /\ [][Next]_vars

(* ------------------------------------------------------------------ *)
(* The shortest and the longest maturities the validators let through *)
(* ------------------------------------------------------------------ *)

ExtremeYears == {MinOf("yearsToMaturity"), MaxOf("yearsToMaturity")}

InitExtremeYears ==
    /\ op \in Ops
    /\ \E y \in ExtremeYears, f \in Frequencies :
            dto = Dto(op, R(1), R(5), R(1), y, f, {})
    /\ startDate \in StartDates
    /\ pc = "start"
    /\ FreshLocals
    /\ run = 1
    /\ first = NoFirst
    /\ other = NoFrame
    /\ DirectCall

SpecExtremeYears == InitExtremeYears /\ [][Next]_vars

(* ------------------------------------------------------------------ *)
(* The same input given to the service a second time                  *)
(* ------------------------------------------------------------------ *)

\* The caller keeps the first result and invokes the same method with the
\* same argument again; the clock of the second invocation is its own.
Reinvoke ==
    /\ pc = "done" /\ run = 1 /\ stage = "direct"
    /\ first' = [set |-> TRUE, startDate |-> startDate, result |-> result]
    /\ run' = 2
    /\ startDate' \in StartDates
    /\ pc' = "start"
    /\ couponPayment' = R(0)
    /\ totalPeriods' = 0
    /\ metrics' = NoMetrics
    /\ ytmCalls' = 0
    /\ period' = 0
    /\ cumulativeInterest' = R(0)
    /\ cashflows' = <<>>
    /\ result' = NoResult
    /\ UNCHANGED <<op, dto, other, http>>

NextTwice ==
    \/ Next
    \/ Reinvoke

SpecTwice == Init /\ [][NextTwice]_vars

(* ------------------------------------------------------------------ *)
(* One input given to both variants of the service                    *)
(* ------------------------------------------------------------------ *)

InitVariants == Init /\ op = "calcA"

\* After calculateBond of the date-schedule variant has returned, the same
\* values are given to a method of the present-value variant, which reads
\* the frequency as couponFrequency and the clock for itself.
InvokeVariant ==
    /\ pc = "done" /\ run = 1 /\ op = "calcA" /\ stage = "direct"
    /\ first' = [set |-> TRUE, startDate |-> startDate, result |-> result]
    /\ run' = 2
    /\ op' \in {"calcB", "schedB"}
    /\ dto' = Dto(op', dto.faceValue, dto.couponRate, dto.marketPrice,
                  dto.yearsToMaturity, dto.frequency, dto.yieldToMaturity)
    /\ startDate' \in StartDates
    /\ pc' = "start"
    /\ couponPayment' = R(0)
    /\ totalPeriods' = 0
    /\ metrics' = NoMetrics
    /\ ytmCalls' = 0
    /\ period' = 0
    /\ cumulativeInterest' = R(0)
    /\ cashflows' = <<>>
    /\ result' = NoResult
    /\ UNCHANGED <<other, http>>

NextVariants ==
    \/ Next
    \/ InvokeVariant

SpecVariants == InitVariants /\ [][NextVariants]_vars

(* ------------------------------------------------------------------ *)
(* Two invocations in progress on one BondsService                    *)
(* ------------------------------------------------------------------ *)

\* The frame of an invocation: its method, its argument, its position and
\* every variable the method declares.  BondsService has no field but its
\* logger, so the frame is all an invocation reads or writes.
Frame(o, d, start, at, payment, total, m, calls, p, cum, rows, res) ==
    [set |-> TRUE, op |-> o, dto |-> d, startDate |-> start, pc |-> at,
     couponPayment |-> payment, totalPeriods |-> total, metrics |-> m,
     ytmCalls |-> calls, period |-> p, cumulativeInterest |-> cum,
     cashflows |-> rows, result |-> res]

CurrentFrame ==
    Frame(op, dto, startDate, pc, couponPayment, totalPeriods, metrics,
          ytmCalls, period, cumulativeInterest, cashflows, result)

FreshFrame(o, d, start) ==
    Frame(o, d, start, "start", R(0), 0, NoMetrics, 0, 0, R(0), <<>>, NoResult)

\* Mutant: the rows and the running interest are kept on the service and
\* shared by the invocations.
ResumeSharedRows(frame, current) ==
    [frame EXCEPT !.cashflows = current.cashflows,
                  !.cumulativeInterest = current.cumulativeInterest]

\* What an invocation finds when it continues after the other one ran:
\* its own frame.
Resume(frame, current) == frame

\* Inputs of two independent invocations.
ConcurrentYears == {Rat(1, 2), Rat(3, 2)}
ConcurrentFrequencies == {1, 2}
ConcurrentDtos(o) ==
    {Dto(o, R(fv), R(5), R(1), y, f, ytm) :
        fv \in {1, 2}, y \in ConcurrentYears, f \in ConcurrentFrequencies,
        ytm \in SuppliedYtm}
OtherDtos(o) ==
    {Dto(o, R(2), R(100), Rat(1, 2), y, f, {}) :
        y \in ConcurrentYears, f \in ConcurrentFrequencies}

InitConcurrent ==
    /\ op \in Ops
    /\ dto \in ConcurrentDtos(op)
    /\ startDate \in StartDates
    /\ pc = "start"
    /\ FreshLocals
    /\ run = 1
    /\ first = NoFirst
    /\ \E o \in Ops : \E d \in OtherDtos(o), start \in StartDates :
            other = FreshFrame(o, d, start)
    /\ DirectCall

\* The runtime leaves the running invocation and continues the other one.
Switch ==
    /\ other.set /\ stage = "direct"
    /\ LET next == Resume(other, CurrentFrame)
       IN  /\ op' = next.op
           /\ dto' = next.dto
           /\ startDate' = next.startDate
           /\ pc' = next.pc
           /\ couponPayment' = next.couponPayment
           /\ totalPeriods' = next.totalPeriods
           /\ metrics' = next.metrics
           /\ ytmCalls' = next.ytmCalls
           /\ period' = next.period
           /\ cumulativeInterest' = next.cumulativeInterest
           /\ cashflows' = next.cashflows
           /\ result' = next.result
    /\ other' = CurrentFrame
    /\ UNCHANGED <<run, first, http>>

NextConcurrent ==
    \/ Next
    \/ Switch

SpecConcurrent == InitConcurrent /\ [][NextConcurrent]_vars

(* ------------------------------------------------------------------ *)
(* Properties                                                         *)
(* ------------------------------------------------------------------ *)

Returned == pc = "done"
IsCalculateBond == op \in {"calcA", "calcB"}
HasSchedule == op \in {"calcA", "schedB"}
YtmSupplied == dto.yieldToMaturity # {}

\* ceil(yearsToMaturity x frequency), characterised without Math.ceil: the
\* least integer n with n >= yearsToMaturity x frequency.
ExpectedPeriods ==
    LET y == dto.yearsToMaturity
    IN  CHOOSE n \in 0..(y.num * Frequency) :
            /\ n * y.den >= y.num * Frequency
            /\ (n - 1) * y.den < y.num * Frequency

\* C1: every returned sequence (calculateBond of both variants and
\* generateCashflowSchedule) has exactly ceil(yearsToMaturity x
\* couponFrequency) elements, and the i-th element has period i.
C1_PeriodsSequential ==
    /\ \A i \in 1..Len(cashflows) : cashflows[i].period = i
    /\ Returned =>
        /\ Len(result.cashflows) = ExpectedPeriods
        /\ \A i \in 1..Len(result.cashflows) : result.cashflows[i].period = i

\* A fractional maturity of 1.5 years with quarterly coupons has returned
\* its 6 cashflows.
C1_Witness ==
    /\ Returned /\ op = "calcB"
    /\ dto.yearsToMaturity = Rat(3, 2) /\ Frequency = 4
    /\ Len(result.cashflows) = 6
    /\ result.cashflows[6].period = 6

\* C2: the cumulativeInterest of the last schedule row returned by
\* calculateBond equals the returned totalInterest, for whole and for
\* fractional maturities.
C2_LastCumulativeIsTotalInterest ==
    (Returned /\ op = "calcA" /\ Len(result.cashflows) > 0) =>
        result.cashflows[Len(result.cashflows)].cumulativeInterest
            = result.totalInterest

\* C3: in every schedule, remainingPrincipal is faceValue in the rows
\* before period totalPeriods and 0 in the row of period totalPeriods.
C3_RemainingPrincipal ==
    (Returned /\ HasSchedule) =>
        \A i \in 1..Len(result.cashflows) :
            LET row == result.cashflows[i]
            IN  /\ row.period < ExpectedPeriods =>
                    row.remainingPrincipal = dto.faceValue
                /\ row.period = ExpectedPeriods =>
                    row.remainingPrincipal = R(0)

\* A schedule of several rows has been returned: the first still owes the
\* face value, the last owes nothing.
C3_Witness ==
    /\ Returned /\ HasSchedule
    /\ Len(result.cashflows) >= 3
    /\ result.cashflows[1].remainingPrincipal = dto.faceValue
    /\ result.cashflows[Len(result.cashflows)].remainingPrincipal = R(0)

\* C4: status is Par iff marketPrice = faceValue, Premium iff marketPrice >
\* faceValue, Discount iff marketPrice < faceValue, whatever the other fields.
C4_Status ==
    (Returned /\ IsCalculateBond) =>
        LET mp == dto.marketPrice
            fv == dto.faceValue
        IN  /\ result.status \in {"Premium", "Discount", "Par"}
            /\ result.status = "Par" <=> mp = fv
            /\ result.status = "Premium" <=> mp.num * fv.den > fv.num * mp.den
            /\ result.status = "Discount" <=> mp.num * fv.den < fv.num * mp.den

\* A bond priced at its face value of 2 has been classified.
C4_Witness ==
    /\ Returned /\ IsCalculateBond
    /\ dto.marketPrice = R(2) /\ dto.faceValue = R(2)
    /\ result.status = "Par"

AnnualCouponOfInput == RDiv(RMul(dto.faceValue, dto.couponRate), R(100))

\* faceValue x couponRate/100 x yearsToMaturity < 2 x marketPrice
CouponsBelowTwicePrice ==
    RLt(RMul(AnnualCouponOfInput, dto.yearsToMaturity), RMul(R(2), dto.marketPrice))

\* C5 as stated: with no yieldToMaturity supplied, the approximate
\* yieldToMaturity is above currentYield for every discount bond and below
\* currentYield for every premium bond.
C5_YtmAgainstCurrentYield ==
    (Returned /\ IsCalculateBond /\ ~YtmSupplied) =>
        /\ RLt(dto.marketPrice, dto.faceValue) =>
                RGt(result.yieldToMaturity, result.currentYield)
        /\ RGt(dto.marketPrice, dto.faceValue) =>
                RLt(result.yieldToMaturity, result.currentYield)

\* C5 amended: the same, for the inputs with faceValue x couponRate/100 x
\* yearsToMaturity < 2 x marketPrice.
C5_YtmAgainstCurrentYieldBounded ==
    (Returned /\ IsCalculateBond /\ ~YtmSupplied /\ CouponsBelowTwicePrice) =>
        /\ RLt(dto.marketPrice, dto.faceValue) =>
                RGt(result.yieldToMaturity, result.currentYield)
        /\ RGt(dto.marketPrice, dto.faceValue) =>
                RLt(result.yieldToMaturity, result.currentYield)

\* A premium bond whose coupons stay below twice its price has been
\* calculated, and its yieldToMaturity is below its currentYield.
C5_Witness ==
    /\ Returned /\ IsCalculateBond /\ ~YtmSupplied /\ CouponsBelowTwicePrice
    /\ RGt(dto.marketPrice, dto.faceValue)
    /\ RLt(result.yieldToMaturity, result.currentYield)

\* C6: with no yieldToMaturity supplied and marketPrice = faceValue, the
\* returned yieldToMaturity equals couponRate.
C6_ParYtmIsCouponRate ==
    (Returned /\ IsCalculateBond /\ ~YtmSupplied
        /\ dto.marketPrice = dto.faceValue) =>
            result.yieldToMaturity = dto.couponRate

\* A 5% par bond has been calculated by the present-value variant.
C6_Witness ==
    /\ Returned /\ op = "calcB" /\ ~YtmSupplied
    /\ dto.marketPrice = dto.faceValue
    /\ dto.couponRate = R(5)
    /\ result.yieldToMaturity = R(5)

C8_ApproximationFormula ==
    (Returned /\ IsCalculateBond /\ ~YtmSupplied) =>
        LET fv == dto.faceValue
            mp == dto.marketPrice
            yrs == dto.yearsToMaturity
        IN  /\ RMul(RMul(result.yieldToMaturity, RAdd(fv, mp)), yrs)
                 = RMul(R(2), RAdd(RMul(RMul(fv, dto.couponRate), yrs),
                                   RMul(R(100), RSub(fv, mp))))
            /\ ytmCalls = 1

\* A discount bond with monthly coupons has been calculated by the
\* date-schedule variant.
C8_Witness ==
    /\ Returned /\ op = "calcA" /\ ~YtmSupplied
    /\ Frequency = 12
    /\ RLt(dto.marketPrice, dto.faceValue)
    /\ ytmCalls = 1

\* C9: currentYield = (annualCoupon / marketPrice) x 100 with annualCoupon =
\* couponPayment x couponFrequency = faceValue x couponRate / 100, stated
\* without division as currentYield x marketPrice = faceValue x couponRate;
\* couponFrequency and yearsToMaturity do not enter.
C9_CurrentYield ==
    (Returned /\ IsCalculateBond) =>
        /\ RMul(couponPayment, R(Frequency)) = AnnualCouponOfInput
        /\ RMul(result.currentYield, dto.marketPrice)
             = RMul(dto.faceValue, dto.couponRate)

\* A bond with monthly coupons, face value 2, rate 5% and price 1/2 has
\* current yield 20%.
C9_Witness ==
    /\ Returned /\ IsCalculateBond
    /\ Frequency = 12
    /\ dto.faceValue = R(2) /\ dto.couponRate = R(5) /\ dto.marketPrice = Rat(1, 2)
    /\ result.currentYield = R(20)

\* C10: totalInterest = faceValue x couponRate/100 x yearsToMaturity, stated
\* as totalInterest x 100 = faceValue x couponRate x yearsToMaturity;
\* couponFrequency does not enter.
C10_TotalInterest ==
    (Returned /\ IsCalculateBond) =>
        RMul(result.totalInterest, R(100))
            = RMul(RMul(dto.faceValue, dto.couponRate), dto.yearsToMaturity)

\* A bond of 2.5 years with quarterly coupons, face value 2 and rate 100%
\* has total interest 5.
C10_Witness ==
    /\ Returned /\ IsCalculateBond
    /\ Frequency = 4
    /\ dto.yearsToMaturity = Rat(5, 2)
    /\ dto.faceValue = R(2) /\ dto.couponRate = R(100)
    /\ result.totalInterest = R(5)

\* faceValue x couponRate / 100 / frequency, from the input alone.
CouponPaymentOfInput == RDiv(AnnualCouponOfInput, R(Frequency))

\* C11: in the present-value cashflows, the element of period totalPeriods
\* is the only one of type principal and its amount is couponPayment +
\* faceValue; every earlier element has type coupon and amount couponPayment.
C11_PrincipalLast ==
    (Returned /\ op = "calcB") =>
        /\ Cardinality({i \in 1..Len(result.cashflows) :
                            result.cashflows[i].type = "principal"}) = 1
        /\ \A i \in 1..Len(result.cashflows) :
            LET row == result.cashflows[i]
            IN  IF row.period = ExpectedPeriods
                THEN /\ row.type = "principal"
                     /\ row.amount = RAdd(CouponPaymentOfInput, dto.faceValue)
                ELSE /\ row.type = "coupon"
                     /\ row.amount = CouponPaymentOfInput

\* Four present-value cashflows have been returned: three coupons, then the
\* principal with its coupon.
C11_Witness ==
    /\ Returned /\ op = "calcB"
    /\ Len(result.cashflows) = 4
    /\ result.cashflows[3].type = "coupon"
    /\ result.cashflows[4].type = "principal"
    /\ RGt(result.cashflows[4].amount, dto.faceValue)

\* C12: for every period p, presentValue = amount / (1 + periodicYield)^p
\* with periodicYield = (yieldToMaturity percent / 100) / couponFrequency,
\* the percent value being the one the result returns, supplied or computed.
\* The base is stated without division:
\*   (base - 1) x 100 x couponFrequency = returned yieldToMaturity.
C12_PresentValueDiscounting ==
    (Returned /\ op = "calcB") =>
        \A i \in 1..Len(result.cashflows) :
            LET row == result.cashflows[i]
            IN  /\ row.presentValue.amount = row.amount
                /\ row.presentValue.exponent = row.period
                /\ RMul(RSub(row.presentValue.base, R(1)), R(100 * Frequency))
                     = result.yieldToMaturity

\* Quarterly cashflows have been discounted at a supplied 5%: the base of
\* the second one is 1 + 0.05/4 = 81/80.
C12_Witness ==
    /\ Returned /\ op = "calcB" /\ YtmSupplied
    /\ Frequency = 4
    /\ Len(result.cashflows) >= 2
    /\ result.cashflows[2].presentValue.base = Rat(81, 80)
    /\ result.cashflows[2].presentValue.exponent = 2

\* The constraint table, field by field.
IsNumberIn(v, lo, hi) ==
    v.type = "number" /\ ~RLt(v.val, lo) /\ ~RLt(hi, v.val)
IsNumberAtLeast(v, lo) == v.type = "number" /\ ~RLt(v.val, lo)

RequiredFieldOk(property, v) ==
    CASE property = "faceValue" -> IsNumberAtLeast(v, R(1))
      [] property = "couponRate" -> IsNumberIn(v, Rat(1, 100), R(100))
      [] property = "marketPrice" -> IsNumberAtLeast(v, Rat(1, 100))
      [] property = "yearsToMaturity" -> IsNumberIn(v, Rat(1, 10), R(100))
      [] property = "couponFrequency" ->
            v \in {Num(R(1)), Num(R(2)), Num(R(4)), Num(R(12))}

RequiredFields ==
    {"faceValue", "couponRate", "marketPrice", "yearsToMaturity",
     "couponFrequency"}

RequiredFieldsOk(body) ==
    \A property \in RequiredFields : RequiredFieldOk(property, body[property])

YtmAbsentOrInRange(v) ==
    v.type = "absent" \/ IsNumberIn(v, Rat(1, 100), R(100))
YtmMissingOrInRange(v) ==
    v.type \in {"absent", "null"} \/ IsNumberIn(v, Rat(1, 100), R(100))

Validated == stage = "validated"

ViolatingFields(body) ==
    {property \in RequiredFields : ~RequiredFieldOk(property, body[property])}
    \cup (IF YtmMissingOrInRange(body["yieldToMaturity"]) THEN {}
          ELSE {"yieldToMaturity"})

Responded == stage = "responded"
Response == responses[Len(responses)]

\* C13 as stated: a request whose body fails a validator of the DTO is
\* answered with status 400, message 'Validation failed' and the list of
\* field-level entries.
C13_ValidationFailureIs400 ==
    (Responded /\ ValidateDto(instance, dtoClass) # {}) =>
        /\ Response.kind = "error"
        /\ Response.status = BAD_REQUEST
        /\ Response.payload.message = ValidationFailed
        /\ Response.payload.errors = {FormattedErrors(validationErrors)}

\* C16: an exception of the BondCalculationException family thrown by the
\* service is answered with exactly the status it carries: 422 by default,
\* 400 for InvalidBondDataException, 404 for BondNotFoundException.
C16_BusinessStatusKept ==
    (Responded /\ thrown \in BusinessExceptions) =>
        /\ Response.kind = "error"
        /\ Response.status = thrown.status
        /\ Response.status =
                CASE thrown.class = "BondCalculationException" -> 422
                  [] thrown.class = "InvalidBondDataException" -> 400
                  [] thrown.class = "BondNotFoundException" -> 404

C16_Witness ==
    /\ Responded
    /\ serviceCalls = 1
    /\ thrown.class = "BondCalculationException"
    /\ Response.status = 422

\* C17: a thrown value that is no HttpException is answered with status
\* 500; every answer of the filter carries statusCode equal to the status
\* sent, a timestamp and the request URL as path; one response is sent.
C17_FilterPayload ==
    /\ Len(responses) <= 1
    /\ (Responded /\ thrown # NoException) =>
        /\ Len(responses) = 1
        /\ Response.kind = "error"
        /\ ~IsHttpException(thrown) => Response.status = 500
        /\ Response.payload.statusCode = Response.status
        /\ Response.payload.timestamp \in {ToISOString(d) : d \in StartDates}
        /\ Response.payload.path = request.url

C17_Witness ==
    /\ Responded
    /\ thrown.class = "string"
    /\ Response.status = 500
    /\ Response.payload.path = "/bond/calculate?source=web"

\* C18 as stated: for a thrown value that is no HttpException the message
\* of the payload is the generic 'Internal server error' text.
C18_UnexpectedIsOpaque ==
    (Responded /\ thrown # NoException /\ ~IsHttpException(thrown)) =>
        Response.payload.message = InternalServerError

\* The body as sent carries frequency, omits couponFrequency and is
\* otherwise within the constraint table.
FrequencyAliasBody(body) ==
    /\ body["frequency"] \in {Num(R(f)) : f \in Frequencies}
    /\ ~HasKey(body, "couponFrequency")
    /\ \A property \in RequiredFields \ {"couponFrequency"} :
            RequiredFieldOk(property, body[property])
    /\ YtmMissingOrInRange(body["yieldToMaturity"])
    /\ ~HasKey(body, "extraField")

\* C19 as stated: a request with frequency instead of couponFrequency is
\* accepted by the pipeline and calculated with that coupon frequency.
C19_FrequencyAliasAccepted ==
    (Responded /\ fault = NoException /\ FrequencyAliasBody(request.sent)) =>
        /\ Response.kind = "ok"
        /\ R(Frequency) = request.sent["frequency"].val

\* Whole months from one date to another.
MonthsBetween(from, to) == (to.year - from.year) * 12 + to.month - from.month

WithoutDate(row) ==
    IF op = "calcA"
    THEN [period |-> row.period, couponPayment |-> row.couponPayment,
          cumulativeInterest |-> row.cumulativeInterest,
          remainingPrincipal |-> row.remainingPrincipal]
    ELSE row

\* C20 as stated: a second invocation of calculateBond with the same input
\* returns the same metrics and rows equal in every field but paymentDate,
\* and each paymentDate is as many months after its own invocation's start
\* date as in the first invocation.
C20_RepeatedInvocation ==
    (run = 2 /\ Returned /\ IsCalculateBond) =>
        /\ result.currentYield = first.result.currentYield
        /\ result.yieldToMaturity = first.result.yieldToMaturity
        /\ result.totalInterest = first.result.totalInterest
        /\ result.status = first.result.status
        /\ Len(result.cashflows) = Len(first.result.cashflows)
        /\ \A i \in 1..Len(result.cashflows) :
            /\ WithoutDate(result.cashflows[i])
                    = WithoutDate(first.result.cashflows[i])
            /\ op = "calcA" =>
                    MonthsBetween(startDate, result.cashflows[i].paymentDate)
                    = MonthsBetween(first.startDate,
                                    first.result.cashflows[i].paymentDate)

\* What an invocation returns when nothing else runs, as a function of its
\* method, its argument and its start date.
ResultAlone(o, d, start) ==
    LET f == IF o = "calcA" THEN d.frequency ELSE d.couponFrequency
        payment == RDiv(RDiv(RMul(d.faceValue, d.couponRate), R(100)), R(f))
        annual == RDiv(RMul(d.faceValue, d.couponRate), R(100))
        n == TotalPeriods(d.yearsToMaturity, f)
        schedule == [p \in 1..n |->
                        ScheduleRow(p, n, d.faceValue, payment,
                                    RMul(R(p), payment), start, f)]
    IN  CASE o = "schedB" -> [returned |-> TRUE, cashflows |-> schedule]
          [] o = "calcA" ->
                [returned |-> TRUE,
                 currentYield |-> RMul(RDiv(annual, d.marketPrice), R(100)),
                 yieldToMaturity |->
                    SelectYtm(d.yieldToMaturity, d.marketPrice, d.faceValue,
                              d.couponRate, d.yearsToMaturity, f).value,
                 totalInterest |-> RMul(annual, d.yearsToMaturity),
                 status |-> BondStatus(d.marketPrice, d.faceValue),
                 cashflows |-> schedule]
          [] o = "calcB" ->
                LET ytm == SelectYtm_PV(d.yieldToMaturity, d.marketPrice,
                                        d.faceValue, d.couponRate,
                                        d.yearsToMaturity, f).value
                IN  [returned |-> TRUE,
                     currentYield |-> RMul(RDiv(annual, d.marketPrice), R(100)),
                     yieldToMaturity |-> ReturnedYtm_PV(ytm),
                     totalInterest |-> RMul(annual, d.yearsToMaturity),
                     status |-> BondStatus(d.marketPrice, d.faceValue),
                     cashflows |-> [p \in 1..n |->
                        CashflowRow(p, n, d.faceValue, payment,
                                    PeriodicYTM(ytm, f))]]

\* C21: of two invocations on independent inputs, interleaved in any
\* order on one service, each returns what it returns when run alone.
C21_InterleavedAsAlone ==
    /\ Returned => result = ResultAlone(op, dto, startDate)
    /\ (other.set /\ other.pc = "done") =>
            other.result = ResultAlone(other.op, other.dto, other.startDate)

\* Both have returned, and each ran while the other was in its loop.
C21_Witness ==
    /\ Returned /\ other.set /\ other.pc = "done"
    /\ Len(result.cashflows) = 3
    /\ Len(other.result.cashflows) = 3
    /\ dto # other.dto

\* C22: for every valid input totalPeriods is at least 1 (also for
\* yearsToMaturity x couponFrequency < 1) and at most 100 x 12; the loop
\* counter never passes totalPeriods + 1, one row is pushed per iteration,
\* and the method has returned after exactly totalPeriods iterations.
C22_LoopBounded ==
    (pc # "start") =>
        /\ totalPeriods >= 1
        /\ totalPeriods <= 100 * 12
        /\ totalPeriods = ExpectedPeriods
        /\ period >= 1 /\ period <= totalPeriods + 1
        /\ Len(cashflows) = period - 1
        /\ Returned => (period = totalPeriods + 1
                            /\ Len(result.cashflows) = totalPeriods)

C22_Witness ==
    /\ Returned
    /\ totalPeriods = 1200
    /\ Len(result.cashflows) = 1200

\* C23 as stated: the paymentDate of the row of period p lies
\* p x 12 / couponFrequency calendar months after the start date, so the
\* month offsets increase by 12 / couponFrequency from row to row.
C23_PaymentDateMonths ==
    (Returned /\ HasSchedule) =>
        \A i \in 1..Len(result.cashflows) :
            /\ (i * 12) % Frequency = 0
            /\ MonthsBetween(startDate, result.cashflows[i].paymentDate)
                    = (i * 12) \div Frequency
            /\ i > 1 =>
                    MonthsBetween(result.cashflows[i - 1].paymentDate,
                                  result.cashflows[i].paymentDate)
                    = 12 \div Frequency

\* C24: in every returned schedule each row's couponPayment is
\* faceValue x couponRate / 100 / couponFrequency and the row of period k
\* has cumulativeInterest k x couponPayment, which therefore increases
\* strictly along the schedule.
C24_CumulativeInterest ==
    (Returned /\ HasSchedule) =>
        \A i \in 1..Len(result.cashflows) :
            LET row == result.cashflows[i]
            IN  /\ row.couponPayment = CouponPaymentOfInput
                /\ row.cumulativeInterest
                        = RMul(R(row.period), CouponPaymentOfInput)
                /\ i > 1 => RLt(result.cashflows[i - 1].cumulativeInterest,
                                row.cumulativeInterest)

C24_Witness ==
    /\ Returned /\ HasSchedule
    /\ Len(result.cashflows) >= 3
    /\ result.cashflows[3].cumulativeInterest = RMul(R(3), CouponPaymentOfInput)

\* C25: when yieldToMaturity is not supplied, the returned yieldToMaturity
\* is below couponRate for marketPrice > faceValue and above couponRate for
\* marketPrice < faceValue.
C25_YtmAgainstCouponRate ==
    (Returned /\ IsCalculateBond /\ ~YtmSupplied) =>
        /\ RGt(dto.marketPrice, dto.faceValue)
                => RLt(result.yieldToMaturity, dto.couponRate)
        /\ RLt(dto.marketPrice, dto.faceValue)
                => RGt(result.yieldToMaturity, dto.couponRate)

C25_Witness ==
    /\ Returned /\ op = "calcB" /\ ~YtmSupplied
    /\ RGt(dto.marketPrice, dto.faceValue)
    /\ RLt(result.yieldToMaturity, R(0))
    /\ dto.couponRate = R(5)

\* The body as sent holds every decorated property of the DTO class with
\* a valid value.
ValidForClass(body, class) ==
    /\ \A property \in RequiredFields \ {"couponFrequency"} :
            RequiredFieldOk(property, body[property])
    /\ RequiredFieldOk("couponFrequency", body[class])
    /\ YtmMissingOrInRange(body["yieldToMaturity"])
    /\ \A key \in {"couponFrequency", "frequency"} \ {class} :
            ~HasKey(body, key)

\* C26 as stated: a body with valid required fields and an additional
\* unknown field is processed normally: the service is called and its
\* result is returned.
C26_ExtraFieldsIgnored ==
    (Responded /\ fault = NoException /\ request.type = "object"
        /\ ValidForClass(request.sent, dtoClass)
        /\ HasKey(request.sent, "extraField")) =>
            /\ serviceCalls = 1
            /\ Response.kind = "ok"

\* The handler of the controller has been entered and has ended.
Handled == Responded /\ validationErrors = {}

\* C27: per request the controller calls the service once, with the DTO it
\* received; it returns the service's result unchanged, and what the
\* service throws is thrown on as it is, without a second call and without
\* a result in its place.
C27_ControllerPassesThrough ==
    /\ serviceCalls <= 1
    /\ stage \in {"service", "responded"} /\ validationErrors = {}
            => serviceCalls = 1
    /\ (stage = "service") =>
            /\ dto.faceValue = instance["faceValue"].val
            /\ dto.couponRate = instance["couponRate"].val
            /\ dto.marketPrice = instance["marketPrice"].val
            /\ dto.yearsToMaturity = instance["yearsToMaturity"].val
            /\ R(Frequency) = instance[dtoClass].val
            /\ dto.yieldToMaturity =
                    IF instance["yieldToMaturity"].type = "number"
                    THEN {instance["yieldToMaturity"].val} ELSE {}
    /\ (Handled /\ fault = NoException) =>
            /\ Len(responses) = 1
            /\ Response.kind = "ok"
            /\ Response.payload = result
            /\ result.returned
    /\ (Handled /\ fault # NoException) =>
            /\ thrown = fault
            /\ Len(responses) = 1
            /\ Response.kind = "error"
            /\ ~result.returned

C27_Witness ==
    /\ Handled /\ fault = NoException
    /\ serviceCalls = 1
    /\ dto.yieldToMaturity = {R(5)}
    /\ Response.payload = result

\* The middleware has run on the request.
AfterUse == registered /\ stage # "received"

\* C28: FieldAliasMiddleware.use changes at most couponFrequency: it sets
\* it to the value of frequency when the body is an object with frequency
\* and without couponFrequency, and leaves it otherwise; every other key
\* is as sent; a second application changes nothing; next() is called
\* once, also for a body that is missing or no object.
C28_AliasFrame ==
    /\ nextCalls = IF AfterUse THEN 1 ELSE 0
    /\ AfterUse =>
        /\ \A key \in BodyFields \ {"couponFrequency"} :
                request.body[key] = request.sent[key]
        /\ request.body["couponFrequency"] =
                IF /\ request.type = "object"
                   /\ HasKey(request.sent, "frequency")
                   /\ ~HasKey(request.sent, "couponFrequency")
                THEN request.sent["frequency"]
                ELSE request.sent["couponFrequency"]
        /\ FieldAlias(request.body) = request.body

C28_Witness ==
    /\ AfterUse
    /\ request.sent["couponFrequency"] = Absent
    /\ request.body["couponFrequency"] = Num(R(12))
    /\ request.body["frequency"] = Num(R(12))

\* The fields of a schedule row that hold no date.
Undated(row) ==
    [period |-> row.period, couponPayment |-> row.couponPayment,
     cumulativeInterest |-> row.cumulativeInterest,
     remainingPrincipal |-> row.remainingPrincipal]

\* The undated row of period k as faceValue, couponRate, yearsToMaturity
\* and the frequency alone determine it.
UndatedRowOfInput(k) ==
    [period |-> k, couponPayment |-> CouponPaymentOfInput,
     cumulativeInterest |-> RMul(R(k), CouponPaymentOfInput),
     remainingPrincipal |-> IF k = ExpectedPeriods THEN R(0) ELSE dto.faceValue]

C30_DiscountBasePositive ==
    (Returned /\ op = "calcB") =>
        \A i \in 1..Len(result.cashflows) :
            LET pv == result.cashflows[i].presentValue
            IN  /\ RGt(pv.base, R(0))
                /\ RGt(pv.amount, R(0))
                /\ ~RLt(result.yieldToMaturity, R(0)) => ~RLt(pv.base, R(1))

====
